---- MODULE Spec2Model ----
(***************************************************************************)
(* A model of nlq.py: the schema introspector (ColumnInfo, TableInfo,      *)
(* SQlite.format_tables_info), the prompt builder (SQlite.make_prompt),    *)
(* and the two chained remote calls of SQlite.build_query / execute.       *)
(*                                                                         *)
(* A Python str is a sequence of one-character strings, so that join,      *)
(* replace, split, str.format and textwrap.dedent are computed character   *)
(* by character.  An Optional value is a sequence of length 0 (None) or 1. *)
(* A dict is a function whose DOMAIN is its key set.                       *)
(***************************************************************************)
EXTENDS Integers, Sequences, FiniteSets, TLC

VARIABLES
    conn,            \* the store behind self.conn: tables in catalog order
    environ,         \* os.environ["OPENAI_API_KEY"], an Optional
    openai_api_key,  \* openai.api_key, the process-wide key, an Optional
    objs,            \* the SQlite objects constructed so far, in order
    pc,              \* "idle" | "chat" | "completion" | "done" | "raised"
    op,              \* the method the caller is in
    self,            \* index in objs of the object the call runs on (0: none)
    arg,             \* the argument(s) of the call in progress
    trace,           \* the stages the call in progress went through so far
    db_log,          \* what the call in progress executed through self.conn
    prompt,          \* the prompt of the remote call in flight
    used_keys,       \* openai.api_key as read by each remote call of the call
    chat_text,       \* res["choices"][0]["message"]["content"] of the chat call
    draft,           \* the value _build_query returned
    completion_text, \* res["choices"][0]["text"] of the completion call
    final,           \* the value _translate returned
    raised,          \* which collaborator's exception is propagating
    ret              \* the value the finished call returned, an Optional

vars == <<conn, environ, openai_api_key, objs, pc, op, self, arg, trace, db_log,
          prompt, used_keys, chat_text, draft, completion_text, final, raised,
          ret>>

-----------------------------------------------------------------------------
(* Bounds of the model.                                                    *)

MaxTables == 2
MaxQueryLen == 3
MaxExecQueryLen == 1
MaxFormatCols == 2
MaxObjects == 2

-----------------------------------------------------------------------------
(* Python values.                                                          *)

None == <<>>
Some(x) == <<x>>
NL == "\n"
EmptyDict == <<>>

\* Python truthiness of an Optional[str]: None and "" are falsy.
Truthy(o) == o # None /\ o[1] # <<>>

\* a or b
PyOr(a, b) == IF Truthy(a) THEN a ELSE b

\* d.get(k)
DictGet(d, k) == IF k \in DOMAIN d THEN Some(d[k]) ELSE None

\* d.get(k, default)
DictGetOr(d, k, default) == IF k \in DOMAIN d THEN d[k] ELSE default

\* The str values of length at most n over an alphabet.
Texts(alphabet, n) == UNION {[1..k -> alphabet] : k \in 0..n}

RECURSIVE Concat(_)
\* "".join(parts), by halves
Concat(parts) ==
    IF Len(parts) = 0 THEN <<>>
    ELSE IF Len(parts) = 1 THEN parts[1]
    ELSE LET h == Len(parts) \div 2
         IN  Concat(SubSeq(parts, 1, h)) \o Concat(SubSeq(parts, h + 1, Len(parts)))

\* sep.join(parts)
Join(sep, parts) ==
    IF Len(parts) = 0 THEN <<>>
    ELSE Concat([i \in 1..(2 * Len(parts) - 1) |->
                    IF i % 2 = 1 THEN parts[(i + 1) \div 2] ELSE sep])

\* s.replace(c, rep), c one character
Replace(s, c, rep) ==
    Concat([i \in 1..Len(s) |-> IF s[i] = c THEN rep ELSE <<s[i]>>])

\* s.split(c), c one character: always at least one part
Split(s, c) ==
    LET at == {i \in 1..Len(s) : s[i] = c}
        n == Cardinality(at)
        \* the position of the k-th c; 0 before the first, Len(s) + 1 after the last
        cut(k) == IF k = 0 THEN 0
                  ELSE IF k = n + 1 THEN Len(s) + 1
                  ELSE CHOOSE i \in at : Cardinality({j \in at : j < i}) = k - 1
    IN  [k \in 1..(n + 1) |-> SubSeq(s, cut(k - 1) + 1, cut(k) - 1)]

StartsWith(s, p) == Len(s) >= Len(p) /\ SubSeq(s, 1, Len(p)) = p

-----------------------------------------------------------------------------
(* The literals of nlq.py.                                                 *)

SP == <<" ">>
NOTNULL == <<"N", "O", "T", "N", "U", "L", "L">>
NULLABLE == <<"N", "U", "L", "L", "A", "B", "L", "E">>
DescriptionLabel == <<"d", "e", "s", "c", "r", "i", "p", "t", "i", "o", "n", ":">>
TableNameLabel == <<"T", "A", "B", "L", "E", "_", "N", "A", "M", "E", ":", " ">>
CommentMarker == <<"#", " ">>
NewlineMarker == <<NL>> \o CommentMarker
SelectStar == <<"S", "E", "L", "E", "C", "T", " ", "*">>
RewriteLine ==
    <<"T", "h", "e", " ", "a", "b", "o", "v", "e", " ", "S", "Q", "L", " ",
      "c", "a", "n", " ", "b", "e", " ", "r", "e", "w", "r", "i", "t", "t",
      "e", "n", " ", "a", "s", " ", "f", "o", "l", "l", "o", "w", "s", " ",
      "i", "n", " ", "S", "Q", "L", "i", "t", "e">>
\* The indentation of the f-string's lines inside make_prompt.
TemplateIndent == [i \in 1..12 |-> " "]

-----------------------------------------------------------------------------
(* ColumnInfo and TableInfo.                                               *)

\* ColumnInfo(*row)
ColumnInfo(row) ==
    [cid |-> row[1], name |-> row[2], type |-> row[3], notnull |-> row[4],
     dflt_value |-> row[5], pk |-> row[6]]

\* ColumnInfo.format with the suffix decided by "desc is not None".
ColumnInfo_format_NotNone(column, desc) ==
    LET null == IF column.notnull # 0 THEN NOTNULL ELSE NULLABLE
        descs == IF desc # None THEN <<DescriptionLabel, desc[1]>> ELSE <<>>
    IN  Join(SP, <<column.name, column.type, null>> \o descs)

\* ColumnInfo.format(self, desc)
ColumnInfo_format(column, desc) ==
    LET null == IF column.notnull # 0 THEN NOTNULL ELSE NULLABLE
        descs == IF Truthy(desc) THEN <<DescriptionLabel, desc[1]>> ELSE <<>>
    IN  Join(SP, <<column.name, column.type, null>> \o descs)

\* TableInfo.from_rows(rows).columns
TableInfo_from_rows(rows) == [i \in 1..Len(rows) |-> ColumnInfo(rows[i])]

\* TableInfo.format that formats every column without its description.
TableInfo_format_NoLookup(columns, desc_dict) ==
    LET line(column) == ColumnInfo_format(column, None)
    IN  Join(<<NL>>, [i \in 1..Len(columns) |-> line(columns[i])])

\* TableInfo.format(self, desc_dict)
TableInfo_format(columns, desc_dict) ==
    LET line(column) == ColumnInfo_format(column, DictGet(desc_dict, column.name))
    IN  Join(<<NL>>, [i \in 1..Len(columns) |-> line(columns[i])])

-----------------------------------------------------------------------------
(* The store behind the connection: a sequence, in catalog order, of       *)
(* tables [name, cols], each column a [name, type, notnull, pk].            *)

\* cursor.execute('SELECT name FROM sqlite_master WHERE type = "table"')
CatalogRows(db) == [i \in 1..Len(db) |-> <<db[i].name>>]

\* cursor.execute("PRAGMA table_info(<table_name>)"): one row per column,
\* (cid, name, type, notnull, dflt_value, pk); no row for an unknown table.
PragmaTableInfo(db, table_name) ==
    IF \E i \in 1..Len(db) : db[i].name = table_name
    THEN LET t == db[CHOOSE i \in 1..Len(db) : db[i].name = table_name]
         IN  [k \in 1..Len(t.cols) |->
                 <<k - 1, t.cols[k].name, t.cols[k].type, t.cols[k].notnull,
                   None, t.cols[k].pk>>]
    ELSE <<>>

\* The statements a call leaves in db_log.
CatalogStmt == [kind |-> "catalog", text |-> <<>>]
PragmaStmt(table_name) == [kind |-> "table_info", text |-> table_name]
SqlStmt(sql) == [kind |-> "sql", text |-> sql]

-----------------------------------------------------------------------------
(* SQlite: the schema introspector.                                        *)

\* table_names that stops after the first row of the catalog.
table_names_First(db) ==
    LET rows == SubSeq(CatalogRows(db), 1, IF db = <<>> THEN 0 ELSE 1)
    IN  [i \in 1..Len(rows) |-> rows[i][1]]

\* SQlite.table_names(self)
table_names(db) ==
    LET rows == CatalogRows(db)
    IN  [i \in 1..Len(rows) |-> rows[i][1]]

\* SQlite.descriptions(self)
descriptions(column_descriptions) ==
    IF column_descriptions # None /\ DOMAIN column_descriptions[1] # {}
    THEN column_descriptions[1]
    ELSE EmptyDict

\* The info_list of format_tables_info: four entries per table.
InfoList(db, column_descriptions) ==
    LET entries(table_name) ==
            <<<<>>,
              TableNameLabel \o table_name,
              TableInfo_format(
                  TableInfo_from_rows(PragmaTableInfo(db, table_name)),
                  DictGetOr(descriptions(column_descriptions), table_name,
                            EmptyDict)),
              <<>>>>
        names == table_names(db)
    IN  Concat([i \in 1..Len(names) |-> entries(names[i])])

\* format_tables_info without the rewrite of the newlines.
format_tables_info_NoRewrite(db, column_descriptions) ==
    Join(<<NL>>, InfoList(db, column_descriptions))

\* SQlite.format_tables_info(self)
format_tables_info(db, column_descriptions) ==
    Replace(Join(<<NL>>, InfoList(db, column_descriptions)), NL, NewlineMarker)

\* What format_tables_info executes through the connection, in order.
IntrospectionStmts(db) ==
    LET names == table_names(db)
    IN  <<CatalogStmt>> \o [i \in 1..Len(names) |-> PragmaStmt(names[i])]

-----------------------------------------------------------------------------
(* str.format with positional arguments, for format strings without        *)
(* conversions, format specs, attribute or index lookups.  The result is   *)
(* [ok, val]: ok is FALSE when Python raises (ValueError, IndexError,      *)
(* KeyError).                                                              *)

Digits == {"0", "1", "2", "3", "4", "5", "6", "7", "8", "9"}

DigitValue(c) ==
    CASE c = "0" -> 0 [] c = "1" -> 1 [] c = "2" -> 2 [] c = "3" -> 3
      [] c = "4" -> 4 [] c = "5" -> 5 [] c = "6" -> 6 [] c = "7" -> 7
      [] c = "8" -> 8 [] c = "9" -> 9

RECURSIVE IntValue(_)
IntValue(s) ==
    IF s = <<>> THEN 0
    ELSE 10 * IntValue(SubSeq(s, 1, Len(s) - 1)) + DigitValue(s[Len(s)])

Raises == [ok |-> FALSE, val |-> <<>>]
Returns(v) == [ok |-> TRUE, val |-> v]
Prepend(v, r) == IF r.ok THEN Returns(v \o r.val) ELSE Raises

RECURSIVE FormatScan(_, _, _, _)
\* numbering is "none", "auto" or "manual"; auto is the next automatic index.
FormatScan(s, args, auto, numbering) ==
    IF s = <<>> THEN Returns(<<>>)
    ELSE IF Head(s) = "{" THEN
        IF Len(s) >= 2 /\ s[2] = "{"
        THEN Prepend(<<"{">>, FormatScan(SubSeq(s, 3, Len(s)), args, auto, numbering))
        ELSE IF \A i \in 2..Len(s) : s[i] # "}" THEN Raises
        ELSE LET k == CHOOSE i \in 2..Len(s) :
                          s[i] = "}" /\ \A j \in 2..(i - 1) : s[j] # "}"
                 field == SubSeq(s, 2, k - 1)
                 rest == SubSeq(s, k + 1, Len(s))
             IN  IF field = <<>> THEN
                     IF numbering = "manual" \/ auto >= Len(args) THEN Raises
                     ELSE Prepend(args[auto + 1],
                                  FormatScan(rest, args, auto + 1, "auto"))
                 ELSE IF \A i \in 1..Len(field) : field[i] \in Digits THEN
                     IF numbering = "auto" \/ IntValue(field) >= Len(args)
                     THEN Raises
                     ELSE Prepend(args[IntValue(field) + 1],
                                  FormatScan(rest, args, auto, "manual"))
                 ELSE Raises
    ELSE IF Head(s) = "}" THEN
        IF Len(s) >= 2 /\ s[2] = "}"
        THEN Prepend(<<"}">>, FormatScan(SubSeq(s, 3, Len(s)), args, auto, numbering))
        ELSE Raises
    ELSE Prepend(<<Head(s)>>, FormatScan(Tail(s), args, auto, numbering))

\* s.format(*args)
StrFormat(s, args) == FormatScan(s, args, 0, "none")

-----------------------------------------------------------------------------
(* textwrap.dedent.                                                        *)

IsBlank(c) == c \in {" ", "\t"}

RECURSIVE LeadingBlanks(_)
LeadingBlanks(line) ==
    IF line # <<>> /\ IsBlank(Head(line))
    THEN <<Head(line)>> \o LeadingBlanks(Tail(line))
    ELSE <<>>

RECURSIVE CommonPrefix(_, _)
CommonPrefix(a, b) ==
    IF a # <<>> /\ b # <<>> /\ Head(a) = Head(b)
    THEN <<Head(a)>> \o CommonPrefix(Tail(a), Tail(b))
    ELSE <<>>

RECURSIVE Margin(_)
\* The longest common leading whitespace of the lines, all with content.
Margin(lines) ==
    IF Len(lines) = 1 THEN LeadingBlanks(lines[1])
    ELSE CommonPrefix(LeadingBlanks(lines[1]), Margin(Tail(lines)))

\* textwrap.dedent(text)
dedent(text) ==
    LET blanked(line) == IF \A i \in 1..Len(line) : IsBlank(line[i])
                         THEN <<>> ELSE line
        parts == Split(text, NL)
        lines == [i \in 1..Len(parts) |-> blanked(parts[i])]
        content == SelectSeq(lines, LAMBDA line : line # <<>>)
        margin == IF content = <<>> THEN <<>> ELSE Margin(content)
        strip(line) == IF margin # <<>> /\ StartsWith(line, margin)
                       THEN SubSeq(line, Len(margin) + 1, Len(line))
                       ELSE line
    IN  Join(<<NL>>, [i \in 1..Len(lines) |-> strip(lines[i])])

-----------------------------------------------------------------------------
(* SQlite: the prompt and query builder.                                   *)

\* SQlite.make_prompt(self, query): [ok, val], not ok when query.format raises
\* (before the schema is read).
make_prompt(db, column_descriptions, query) ==
    LET q == StrFormat(query, <<<<NL>>, NewlineMarker>>)
    IN  IF ~q.ok THEN Raises
        ELSE Returns(dedent(
                 <<NL>>
                 \o TemplateIndent \o format_tables_info(db, column_descriptions)
                 \o <<NL>> \o TemplateIndent \o CommentMarker \o q.val
                 \o <<NL>> \o TemplateIndent \o SelectStar
                 \o <<NL>> \o TemplateIndent))

\* The user message _build_query sends to the chat endpoint.
ChatPrompt(db, column_descriptions, query) ==
    make_prompt(db, column_descriptions, query)

\* _build_query that leaves a text alone that already holds a SELECT.
BuildQueryResult_Dedup(text) ==
    IF \E i \in 1..Len(text) : StartsWith(SubSeq(text, i, Len(text)), SubSeq(SelectStar, 1, 6))
    THEN text
    ELSE SelectStar \o text

\* What _build_query returns for the chat endpoint's text.
BuildQueryResult(text) == SelectStar \o text

\* The prompt _translate sends to the completion endpoint.
TranslatePrompt(sql) ==
    LET lines == Split(sql, NL) \o <<<<>>, RewriteLine>>
        commented(line) == CommentMarker \o line
    IN  Join(<<NL>>, [i \in 1..Len(lines) |-> commented(lines[i])])
        \o <<NL, NL>> \o SelectStar

\* _translate that continues the draft instead of the anchor line.
TranslateResult_KeepDraft(sql, text) == sql \o <<NL>> \o text

\* What _translate returns for the completion endpoint's text.
TranslateResult(sql, text) == SelectStar \o <<NL>> \o text

\* __post_init__ that prefers the environment variable to the parameter.
post_init_EnvFirst(api_key) == PyOr(environ, api_key)

\* SQlite.__post_init__(self): the value assigned to openai.api_key.
post_init(api_key) == PyOr(api_key, environ)

-----------------------------------------------------------------------------
(* The inputs the model draws from.                                        *)

TableNames == {<<"t">>, <<"u">>, <<"v">>}

ColId == [name |-> <<"i", "d">>, type |-> <<"I", "N", "T">>, notnull |-> 1, pk |-> 1]
ColNm == [name |-> <<"n", "m">>, type |-> <<"T", "E", "X", "T">>, notnull |-> 0, pk |-> 0]
ColX == [name |-> <<"x">>, type |-> <<>>, notnull |-> 0, pk |-> 0]

\* The column lists a table is created with.
ColumnLists == {<<ColId>>, <<ColId, ColNm>>, <<ColX>>}

TableDefs == [name : TableNames, cols : ColumnLists]

\* The stores of at most n tables, no two with the same name.
Stores(n) ==
    {db \in UNION {[1..k -> TableDefs] : k \in 0..n} :
        \A i, j \in 1..Len(db) : i # j => db[i].name # db[j].name}

\* Description maps without a newline in any description.
PlainDescriptions ==
    {None,
     Some((<<"t">> :> (<<"i", "d">> :> <<"k", "e", "y">>)))}

\* Description maps with an empty description, a newline and a comment marker.
FreeDescriptions ==
    {Some(EmptyDict),
     Some((<<"t">> :> (<<"i", "d">> :> <<"a", NL, "b">> @@ <<"n", "m">> :> <<>>))
          @@ (<<"u">> :> (<<"x">> :> <<"#">>))),
     Some((<<"w">> :> (<<"i", "d">> :> <<"k">>)))}

AllDescriptions == PlainDescriptions \cup FreeDescriptions

\* The ColumnInfo values ColumnInfo.format is applied to.
FormatColumns ==
    {ColumnInfo(<<0, n, t, f, None, 0>>) :
        n \in {<<"i", "d">>, <<"x">>},
        t \in {<<"I", "N", "T">>, <<"T", "E", "X", "T">>, <<>>}, f \in {0, 1}}

\* The desc arguments of ColumnInfo.format.
FormatDescs ==
    {None, Some(<<>>), Some(<<"x">>), Some(<<"a", NL, "b">>), Some(<<"#", " ">>)}

\* The columns of the TableInfo values TableInfo.format is applied to.
FormatTableColumns ==
    {ColumnInfo(<<0, <<"i", "d">>, <<"I", "N", "T">>, 1, None, 1>>),
     ColumnInfo(<<1, <<"n", "m">>, <<"T", "E", "X", "T">>, 0, None, 0>>),
     ColumnInfo(<<2, <<"x">>, <<>>, 0, None, 0>>)}

\* The desc_dict arguments of TableInfo.format.
FormatDescDicts ==
    {EmptyDict,
     (<<"i", "d">> :> <<"k", "e", "y">>),
     (<<"i", "d">> :> <<>>) @@ (<<"x">> :> <<"x">>),
     (<<"n", "m">> :> <<"a", NL, "b">>)}

QueryAlphabet == {"a", NL, "{", "}", "0", "1"}
Queries == Texts(QueryAlphabet, MaxQueryLen)

ExecQueryAlphabet == {"a", NL, "{"}
ExecQueries == Texts(ExecQueryAlphabet, MaxExecQueryLen)

\* " SELECT id FROM users"
ChatExample ==
    <<" ", "S", "E", "L", "E", "C", "T", " ", "i", "d", " ", "F", "R", "O", "M",
      " ", "u", "s", "e", "r", "s">>
ChatTexts == {ChatExample, <<NL, "F", "R", "O", "M", " ", "t">>}

\* " WHERE name='a'\n"
CompletionExample ==
    <<" ", "W", "H", "E", "R", "E", " ", "n", "a", "m", "e", "=", "'", "a", "'", NL>>
CompletionTexts == {CompletionExample, <<>>}

ApiKeys == {None, Some(<<>>), Some(<<"k", "1">>), Some(<<"k", "2">>)}
EnvKeys == {None, Some(<<"e">>)}

-----------------------------------------------------------------------------
(* The state after SQlite(conn, column_descriptions, api_key).             *)

NoCall ==
    /\ pc = "idle"
    /\ op = ""
    /\ self = 0
    /\ arg = <<>>
    /\ trace = <<>>
    /\ db_log = <<>>
    /\ prompt = <<>>
    /\ used_keys = <<>>
    /\ chat_text = <<>>
    /\ draft = <<>>
    /\ completion_text = <<>>
    /\ final = <<>>
    /\ raised = ""
    /\ ret = None

Constructed(stores, descs, keys, envs) ==
    /\ conn \in stores
    /\ environ \in envs
    /\ \E k \in keys, d \in descs :
          /\ objs = <<[api_key |-> k, column_descriptions |-> d]>>
          /\ openai_api_key = post_init(k)
    /\ NoCall

Init == Constructed({<<>>}, PlainDescriptions, {None}, {Some(<<"e">>)})

-----------------------------------------------------------------------------
(* The caller's steps between calls.                                       *)

\* SQlite(conn, column_descriptions, api_key): one more object on the store.
Construct ==
    /\ pc = "idle"
    /\ Len(objs) < MaxObjects
    /\ \E k \in ApiKeys :
          /\ objs' = Append(objs, [api_key |-> k, column_descriptions |-> None])
          /\ openai_api_key' = post_init(k)
    /\ UNCHANGED <<conn, environ, pc, op, self, arg, trace, db_log, prompt,
                   used_keys, chat_text, draft, completion_text, final, raised, ret>>

\* CREATE TABLE through the connection, between two calls.
CreateTable ==
    /\ pc = "idle"
    /\ Len(conn) < MaxTables
    /\ \E t \in TableDefs :
          /\ \A i \in 1..Len(conn) : conn[i].name # t.name
          /\ conn' = Append(conn, t)
    /\ UNCHANGED <<environ, openai_api_key, objs, pc, op, self, arg, trace, db_log,
                   prompt, used_keys, chat_text, draft, completion_text, final,
                   raised, ret>>

\* DROP TABLE through the connection, between two calls.
DropTable ==
    /\ pc = "idle"
    /\ \E i \in 1..Len(conn) :
          conn' = SubSeq(conn, 1, i - 1) \o SubSeq(conn, i + 1, Len(conn))
    /\ UNCHANGED <<environ, openai_api_key, objs, pc, op, self, arg, trace, db_log,
                   prompt, used_keys, chat_text, draft, completion_text, final,
                   raised, ret>>

\* The caller takes the result, or the exception, of the finished call.
Return ==
    /\ pc \in {"done", "raised"}
    /\ pc' = "idle"
    /\ op' = ""
    /\ self' = 0
    /\ arg' = <<>>
    /\ trace' = <<>>
    /\ db_log' = <<>>
    /\ prompt' = <<>>
    /\ used_keys' = <<>>
    /\ chat_text' = <<>>
    /\ draft' = <<>>
    /\ completion_text' = <<>>
    /\ final' = <<>>
    /\ raised' = ""
    /\ ret' = None
    /\ UNCHANGED <<conn, environ, openai_api_key, objs>>

-----------------------------------------------------------------------------
(* Calls that return without a remote call.                                *)

\* column.format(desc)
ColumnFormat ==
    /\ pc = "idle"
    /\ \E column \in FormatColumns, desc \in FormatDescs :
          /\ arg' = [column |-> column, desc |-> desc]
          /\ ret' = Some(ColumnInfo_format(column, desc))
    /\ op' = "ColumnInfo.format"
    /\ pc' = "done"
    /\ UNCHANGED <<conn, environ, openai_api_key, objs, self, trace, db_log, prompt,
                   used_keys, chat_text, draft, completion_text, final, raised>>

\* TableInfo(columns).format(desc_dict)
TableFormat ==
    /\ pc = "idle"
    /\ \E columns \in UNION {[1..k -> FormatTableColumns] : k \in 0..MaxFormatCols},
          desc_dict \in FormatDescDicts :
          /\ arg' = [columns |-> columns, desc_dict |-> desc_dict]
          /\ ret' = Some(TableInfo_format(columns, desc_dict))
    /\ op' = "TableInfo.format"
    /\ pc' = "done"
    /\ UNCHANGED <<conn, environ, openai_api_key, objs, self, trace, db_log, prompt,
                   used_keys, chat_text, draft, completion_text, final, raised>>

\* self.format_tables_info()
CallFormatTablesInfo ==
    /\ pc = "idle"
    /\ \E o \in 1..Len(objs) :
          /\ self' = o
          /\ ret' = Some(format_tables_info(conn, objs[o].column_descriptions))
    /\ db_log' = IntrospectionStmts(conn)
    /\ trace' = <<"introspect">>
    /\ op' = "format_tables_info"
    /\ pc' = "done"
    /\ UNCHANGED <<conn, environ, openai_api_key, objs, arg, prompt, used_keys,
                   chat_text, draft, completion_text, final, raised>>

\* self.make_prompt(query)
CallMakePrompt(queries) ==
    /\ pc = "idle"
    /\ \E o \in 1..Len(objs), query \in queries :
          LET r == make_prompt(conn, objs[o].column_descriptions, query)
          IN  /\ self' = o
              /\ arg' = query
              /\ IF r.ok
                 THEN /\ ret' = Some(r.val)
                      /\ db_log' = IntrospectionStmts(conn)
                      /\ trace' = <<"introspect", "prompt1">>
                      /\ pc' = "done"
                      /\ raised' = ""
                 ELSE /\ ret' = None
                      /\ db_log' = <<>>
                      /\ trace' = <<>>
                      /\ pc' = "raised"
                      /\ raised' = "format"
    /\ op' = "make_prompt"
    /\ UNCHANGED <<conn, environ, openai_api_key, objs, prompt, used_keys,
                   chat_text, draft, completion_text, final>>

-----------------------------------------------------------------------------
(* build_query and execute: two blocking remote calls, then the database.  *)

\* self.execute(query) or self.build_query(query), up to the chat call:
\* get_cursor, make_prompt, then openai.ChatCompletion.create blocks.
BeginCall(queries) ==
    /\ pc = "idle"
    /\ \E o \in 1..Len(objs), query \in queries, method \in {"execute", "build_query"} :
          LET r == ChatPrompt(conn, objs[o].column_descriptions, query)
          IN  /\ self' = o
              /\ op' = method
              /\ IF r.ok
                 THEN /\ prompt' = r.val
                      /\ db_log' = IntrospectionStmts(conn)
                      /\ used_keys' = <<openai_api_key>>
                      /\ trace' = <<"introspect", "prompt1", "chat_call">>
                      /\ pc' = "chat"
                      /\ raised' = ""
                 ELSE /\ prompt' = <<>>
                      /\ db_log' = <<>>
                      /\ used_keys' = <<>>
                      /\ trace' = <<>>
                      /\ pc' = "raised"
                      /\ raised' = "format"
    /\ UNCHANGED <<conn, environ, openai_api_key, objs, arg, chat_text, draft,
                   completion_text, final, ret>>

\* The chat endpoint answers: _build_query returns the draft SQL, _translate
\* builds its prompt and openai.Completion.create blocks.
ChatReturn ==
    /\ pc = "chat"
    /\ \E text \in ChatTexts :
          /\ chat_text' = text
          /\ draft' = BuildQueryResult(text)
          /\ prompt' = TranslatePrompt(BuildQueryResult(text))
    /\ used_keys' = Append(used_keys, openai_api_key)
    /\ trace' = trace \o <<"chat_return", "draft", "prompt2", "completion_call">>
    /\ pc' = "completion"
    /\ UNCHANGED <<conn, environ, openai_api_key, objs, op, self, arg, db_log,
                   completion_text, final, raised, ret>>

\* A chat call that is sent again when it raises.
ChatFail_Retry ==
    /\ pc = "chat"
    /\ trace' = trace \o <<"chat_raise", "chat_call">>
    /\ used_keys' = Append(used_keys, openai_api_key)
    /\ UNCHANGED <<conn, environ, openai_api_key, objs, pc, op, self, arg, db_log,
                   prompt, chat_text, draft, completion_text, final, raised, ret>>

\* The chat call raises (transport, authentication, a response without the
\* expected field): nothing catches it.
ChatFail ==
    /\ pc = "chat"
    /\ trace' = Append(trace, "chat_raise")
    /\ prompt' = <<>>
    /\ pc' = "raised"
    /\ raised' = "remote"
    /\ UNCHANGED <<conn, environ, openai_api_key, objs, op, self, arg, db_log,
                   used_keys, chat_text, draft, completion_text, final, ret>>

\* The completion endpoint answers: _translate returns the final SQL;
\* build_query returns it, execute hands it to cursor.execute, which returns
\* the cursor or raises the engine's error.
CompletionReturn ==
    /\ pc = "completion"
    /\ \E text \in CompletionTexts :
          /\ completion_text' = text
          /\ final' = TranslateResult(draft, text)
          /\ \/ /\ op = "build_query"
                /\ ret' = Some(TranslateResult(draft, text))
                /\ trace' = trace \o <<"completion_return", "final">>
                /\ pc' = "done"
                /\ UNCHANGED <<db_log, raised>>
             \/ /\ op = "execute"
                /\ db_log' = Append(db_log, SqlStmt(TranslateResult(draft, text)))
                /\ trace' = trace \o <<"completion_return", "final", "db_execute">>
                /\ ret' = Some(<<"c", "u", "r", "s", "o", "r">>)
                /\ pc' = "done"
                /\ UNCHANGED raised
             \/ /\ op = "execute"
                /\ db_log' = Append(db_log, SqlStmt(TranslateResult(draft, text)))
                /\ trace' = trace \o <<"completion_return", "final", "db_execute">>
                /\ pc' = "raised"
                /\ raised' = "database"
                /\ UNCHANGED ret
    /\ prompt' = <<>>
    /\ UNCHANGED <<conn, environ, openai_api_key, objs, op, self, arg, used_keys,
                   chat_text, draft>>

\* A completion call whose failure is caught, the draft SQL executed instead.
CompletionFail_Fallback ==
    /\ pc = "completion"
    /\ trace' = trace \o <<"completion_raise", "db_execute">>
    /\ db_log' = Append(db_log, SqlStmt(draft))
    /\ prompt' = <<>>
    /\ pc' = "raised"
    /\ raised' = "remote"
    /\ UNCHANGED <<conn, environ, openai_api_key, objs, op, self, arg, used_keys,
                   chat_text, draft, completion_text, final, ret>>

\* The completion call raises: nothing catches it.
CompletionFail ==
    /\ pc = "completion"
    /\ trace' = Append(trace, "completion_raise")
    /\ prompt' = <<>>
    /\ pc' = "raised"
    /\ raised' = "remote"
    /\ UNCHANGED <<conn, environ, openai_api_key, objs, op, self, arg, db_log,
                   used_keys, chat_text, draft, completion_text, final, ret>>

-----------------------------------------------------------------------------
(* Specifications.                                                         *)

\* One object on a store that changes between calls.
Next ==
    \/ CreateTable
    \/ DropTable
    \/ CallFormatTablesInfo
    \/ CallMakePrompt(ExecQueries)
    \/ BeginCall(ExecQueries)
    \/ ChatReturn
    \/ ChatFail
    \/ CompletionReturn
    \/ CompletionFail
    \/ Return

Spec == Init /\ [][Next]_vars

\* ColumnInfo.format and TableInfo.format on drawn arguments.
InitFormat == Constructed({<<>>}, {None}, {None}, {None})

NextFormat ==
    \/ ColumnFormat
    \/ TableFormat
    \/ Return

SpecFormat == InitFormat /\ [][NextFormat]_vars

\* format_tables_info on every store and description map.
InitTables == Constructed(Stores(MaxTables), AllDescriptions, {None}, {None})

NextTables ==
    \/ CallFormatTablesInfo
    \/ Return

SpecTables == InitTables /\ [][NextTables]_vars

\* make_prompt on every query.
InitPrompt == Constructed(Stores(1), {None}, {None}, {None})

NextPrompt ==
    \/ CallMakePrompt(Queries)
    \/ Return

SpecPrompt == InitPrompt /\ [][NextPrompt]_vars

\* Several objects, each constructed with its own key, on one store.
InitKey == Constructed({<<[name |-> <<"t">>, cols |-> <<ColId>>]>>}, {None}, ApiKeys, EnvKeys)

NextKey ==
    \/ Construct
    \/ BeginCall({<<"a">>})
    \/ ChatReturn
    \/ ChatFail
    \/ CompletionReturn
    \/ CompletionFail
    \/ Return

SpecKey == InitKey /\ [][NextKey]_vars

-----------------------------------------------------------------------------
(* What the claims are stated with.                                        *)

Marker == <<"#", " ">>
Anchor == <<"S", "E", "L", "E", "C", "T", " ", "*">>
Heading == <<"#", " ", "T", "A", "B", "L", "E", "_", "N", "A", "M", "E", ":", " ">>
RemoteRaises == {"chat_raise", "completion_raise"}

\* The stages of one execute, in the order of the control flow.
ExecuteStages ==
    <<"introspect", "prompt1", "chat_call", "chat_return", "draft", "prompt2",
      "completion_call", "completion_return", "final", "db_execute">>

IsPrefix(a, b) == Len(a) <= Len(b) /\ SubSeq(b, 1, Len(a)) = a

Count(events, e) == Cardinality({i \in 1..Len(events) : events[i] = e})

HasNewline(text) == \E i \in 1..Len(text) : text[i] = NL

\* The generated SQL the database's execute primitive received in this call.
ExecutedSql == SelectSeq(db_log, LAMBDA stmt : stmt.kind = "sql")

\* A remote call of the call in progress raised.
RemoteFailed == \E i \in 1..Len(trace) : trace[i] \in RemoteRaises

\* The line a column is to be shown as, for an Optional description.
ExpectedColumnLine(column, desc) ==
    column.name \o <<" ">> \o column.type \o <<" ">>
    \o (IF column.notnull # 0
        THEN <<"N", "O", "T", "N", "U", "L", "L">>
        ELSE <<"N", "U", "L", "L", "A", "B", "L", "E">>)
    \o (IF desc # <<>> /\ desc[1] # <<>>
        THEN <<" ", "d", "e", "s", "c", "r", "i", "p", "t", "i", "o", "n", ":", " ">>
             \o desc[1]
        ELSE <<>>)

\* The description a map holds for a column, as an Optional.
Lookup(desc_dict, column) ==
    IF column.name \in DOMAIN desc_dict THEN <<desc_dict[column.name]>> ELSE <<>>

\* The key an object was constructed with: its parameter, else the environment's.
KeyGiven(o) ==
    IF o.api_key # <<>> /\ o.api_key[1] # <<>> THEN o.api_key ELSE environ

\* The text up to the first space.
FirstWord(line) ==
    IF \E i \in 1..Len(line) : line[i] = " "
    THEN SubSeq(line, 1, (CHOOSE i \in 1..Len(line) :
                              line[i] = " " /\ \A j \in 1..(i - 1) : line[j] # " ") - 1)
    ELSE line

\* The tables and column names a schema block lists, read back from its
\* lines: a heading line opens a table, the line "# " closes it.
ListedSchema(text) ==
    LET lines == Split(text, NL)
        heads == {i \in 1..Len(lines) : StartsWith(lines[i], Heading)}
        head(k) == CHOOSE i \in heads : Cardinality({j \in heads : j < i}) = k - 1
        close(i) == CHOOSE j \in (i + 1)..Len(lines) :
                        lines[j] = Marker /\ \A m \in (i + 1)..(j - 1) : lines[m] # Marker
        column(line) == FirstWord(SubSeq(line, Len(Marker) + 1, Len(line)))
    IN  [k \in 1..Cardinality(heads) |->
            [name |-> SubSeq(lines[head(k)], Len(Heading) + 1, Len(lines[head(k)])),
             cols |-> [m \in 1..(close(head(k)) - head(k) - 1) |->
                          column(lines[head(k) + m])]]]

\* The tables and column names of a store, in catalog order.
Schema(db) ==
    [i \in 1..Len(db) |->
        [name |-> db[i].name,
         cols |-> [k \in 1..Len(db[i].cols) |-> db[i].cols[k].name]]]

\* The lines of a text that ends with a newline, without the empty last part.
LinesOf(text) ==
    LET parts == Split(text, NL)
    IN  IF parts[Len(parts)] = <<>> THEN SubSeq(parts, 1, Len(parts) - 1) ELSE parts

-----------------------------------------------------------------------------
(* C1 *)

\* C1, as claimed: when a remote call of execute fails, the failure reaches the
\* caller and nothing at all was executed against the database since the
\* start of execute.
C1_NothingExecuted ==
    (op = "execute" /\ RemoteFailed)
        => pc = "raised" /\ raised = "remote" /\ ret = None /\ db_log = <<>>

\* C1, amended: when a remote call of execute fails, the failure reaches the
\* caller, no generated SQL was handed to the database's execute primitive,
\* and the only statements executed since the start of execute are the
\* catalog query and the PRAGMA table_info queries of format_tables_info.
C1_NoGeneratedSqlExecuted ==
    (op = "execute" /\ RemoteFailed)
        => /\ pc = "raised" /\ raised = "remote" /\ ret = None
           /\ ExecutedSql = <<>>
           /\ Len(db_log) = 1 + Len(conn)
           /\ db_log[1].kind = "catalog"
           /\ \A i \in 2..Len(db_log) :
                 db_log[i].kind = "table_info" /\ db_log[i].text = conn[i - 1].name

\* C1 witness: the completion call of an execute on a store with a table failed.
C1_Witness ==
    /\ op = "execute" /\ pc = "raised" /\ raised = "remote"
    /\ trace[Len(trace)] = "completion_raise"
    /\ Len(conn) >= 1 /\ Len(db_log) >= 2

-----------------------------------------------------------------------------
(* C2 *)

\* C2: an execute goes through its stages in the one fixed order, each remote
\* endpoint is called at most once, the completion call is made only after the
\* chat call returned, and the database's execute primitive receives the final
\* SQL, once, only after both remote calls returned.
C2_FixedOrder ==
    op = "execute" =>
        LET stages == SelectSeq(trace, LAMBDA e : e \notin RemoteRaises)
        IN  /\ IsPrefix(stages, ExecuteStages)
            /\ \A i \in 1..Len(trace) : trace[i] \in RemoteRaises => i = Len(trace)
            /\ Count(trace, "chat_call") <= 1
            /\ Count(trace, "completion_call") <= 1
            /\ Len(used_keys) = Count(trace, "chat_call") + Count(trace, "completion_call")
            /\ Count(trace, "completion_call") = 1 => Count(trace, "chat_return") = 1
            /\ Len(ExecutedSql) <= 1
            /\ Len(ExecutedSql) = Count(trace, "db_execute")
            /\ ExecutedSql # <<>> =>
                  /\ Count(trace, "chat_return") = 1
                  /\ Count(trace, "completion_return") = 1
                  /\ ExecutedSql[1].text = final

\* C2 witness: an execute that went through every stage.
C2_Witness ==
    op = "execute" /\ pc = "done" /\ trace = ExecuteStages /\ Len(ExecutedSql) = 1

-----------------------------------------------------------------------------
(* C3 *)

\* C3, as claimed: every line of the text format_tables_info returns starts
\* with "# ", the first line included, for the empty store too.
C3_EveryLineMarked ==
    (op = "format_tables_info" /\ pc = "done") =>
        LET lines == Split(ret[1], NL)
        IN  \A i \in 1..Len(lines) : StartsWith(lines[i], Marker)

\* C3, amended: the first line of the text is empty and every line after it
\* starts with "# ", the blank separator lines included; for the empty store
\* the text is empty.
C3_EveryLineButTheFirstMarked ==
    (op = "format_tables_info" /\ pc = "done") =>
        LET lines == Split(ret[1], NL)
        IN  /\ lines[1] = <<>>
            /\ \A i \in 2..Len(lines) : StartsWith(lines[i], Marker)
            /\ conn = <<>> => ret[1] = <<>>
            /\ conn # <<>> => Len(lines) >= 4 * Len(conn)

\* C3 witness: the text of a store of two tables, with a description of two lines.
C3_Witness ==
    /\ op = "format_tables_info" /\ pc = "done" /\ Len(conn) = 2
    /\ \E i \in 1..Len(Split(ret[1], NL)) : Split(ret[1], NL)[i] = <<"#", " ", "b">>

-----------------------------------------------------------------------------
(* C4 *)

\* C4: for every question, of one line or more, with braces or without,
\* make_prompt returns a text whose last line is exactly "SELECT *" and whose
\* lines right above it are the lines of the question, each after "# ".
C4_CommentedQuestionThenAnchor ==
    (op = "make_prompt" /\ pc \in {"done", "raised"}) =>
        /\ pc = "done"
        /\ LET lines == LinesOf(ret[1])
               question == Split(arg, NL)
               n == Len(question)
           IN  /\ Len(lines) >= n + 1
               /\ lines[Len(lines)] = Anchor
               /\ \A j \in 1..n : lines[Len(lines) - n - 1 + j] = Marker \o question[j]

-----------------------------------------------------------------------------
(* C5 *)

\* C5: the draft SQL is "SELECT *" immediately followed by the chat
\* endpoint's text, unchanged, also when that text holds a SELECT of its own.
C5_Concatenation ==
    pc = "completion" => draft = Anchor \o chat_text

\* C5 witness: " SELECT id FROM users" gave "SELECT * SELECT id FROM users".
C5_Witness ==
    /\ pc = "completion"
    /\ chat_text = <<" ", "S", "E", "L", "E", "C", "T", " ", "i", "d", " ", "F", "R",
                     "O", "M", " ", "u", "s", "e", "r", "s">>
    /\ draft = <<"S", "E", "L", "E", "C", "T", " ", "*", " ", "S", "E", "L", "E", "C",
                 "T", " ", "i", "d", " ", "F", "R", "O", "M", " ", "u", "s", "e",
                 "r", "s">>

-----------------------------------------------------------------------------
(* C6 *)

\* C6: the final SQL is "SELECT *", a newline and the completion endpoint's
\* text verbatim, whatever the draft; the draft appears only in the prompt
\* sent to the completion endpoint, each of its lines after "# ".
C6_AnchorThenCompletion ==
    /\ Count(trace, "final") = 1 => final = Anchor \o <<NL>> \o completion_text
    /\ pc = "completion" =>
          LET lines == Split(prompt, NL)
              sql == Split(draft, NL)
          IN  /\ Len(lines) = Len(sql) + 4
              /\ \A i \in 1..Len(sql) : lines[i] = Marker \o sql[i]
              /\ lines[Len(sql) + 1] = Marker
              /\ StartsWith(lines[Len(sql) + 2], Marker)
              /\ lines[Len(sql) + 3] = <<>>
              /\ lines[Len(sql) + 4] = Anchor

\* C6 witness: " WHERE name='a'\n" after a draft of two lines gave
\* "SELECT *\n WHERE name='a'\n".
C6_Witness ==
    /\ op = "build_query" /\ pc = "done"
    /\ HasNewline(draft)
    /\ ret = <<<<"S", "E", "L", "E", "C", "T", " ", "*", NL, " ", "W", "H", "E", "R",
                 "E", " ", "n", "a", "m", "e", "=", "'", "a", "'", NL>>>>
    /\ final = ret[1]

-----------------------------------------------------------------------------
(* C7 *)

\* C7: column.format(d) is "<name> <type> <NOTNULL|NULLABLE>", NOTNULL exactly
\* when the flag is set, followed by " description: <d>" exactly when d is a
\* non-empty description.
C7_ColumnLine ==
    (op = "ColumnInfo.format" /\ pc = "done") =>
        ret[1] = ExpectedColumnLine(arg.column, arg.desc)

\* C7 witness: format("") of a nullable column has no suffix.
C7_Witness ==
    /\ op = "ColumnInfo.format" /\ pc = "done"
    /\ arg.desc = <<<<>>>>
    /\ arg.column.notnull = 0
    /\ ret = <<<<"x", " ", " ", "N", "U", "L", "L", "A", "B", "L", "E">>>>

-----------------------------------------------------------------------------
(* C8 *)

\* C8, as claimed: table.format(map) has exactly one line per column, the
\* i-th line the i-th column's format with its description looked up by name,
\* and is not empty for a non-empty column list.
C8_OneLinePerColumn ==
    (op = "TableInfo.format" /\ pc = "done" /\ arg.columns # <<>>) =>
        LET lines == Split(ret[1], NL)
        IN  /\ ret[1] # <<>>
            /\ Len(lines) = Len(arg.columns)
            /\ \A i \in 1..Len(arg.columns) :
                  lines[i] = ExpectedColumnLine(arg.columns[i],
                                                Lookup(arg.desc_dict, arg.columns[i]))

\* C8, amended: table.format(map) is the newline-join of one entry per
\* column, in column order, the i-th entry the i-th column's format with its
\* description looked up by name; it is not empty for a non-empty column
\* list; the entries are its lines when no looked-up description holds a
\* newline, and a description of several lines adds its extra lines.
C8_OneEntryPerColumn ==
    (op = "TableInfo.format" /\ pc = "done") =>
        LET columns == arg.columns
            entry(i) == ExpectedColumnLine(columns[i], Lookup(arg.desc_dict, columns[i]))
            lines == Split(ret[1], NL)
            extra == Cardinality({<<i, k>> \in (1..Len(columns)) \X (1..Len(ret[1])) :
                                     k <= Len(entry(i)) /\ entry(i)[k] = NL})
        IN  /\ columns # <<>> => ret[1] # <<>>
            /\ columns = <<>> => ret[1] = <<>>
            /\ columns # <<>> => Len(lines) = Len(columns) + extra
            /\ ret[1] = Join(<<NL>>, [i \in 1..Len(columns) |-> entry(i)])
            /\ extra = 0 => \A i \in 1..Len(columns) : lines[i] = entry(i)

\* C8 witness: two columns, the description of the second of two lines.
C8_Witness ==
    /\ op = "TableInfo.format" /\ pc = "done"
    /\ Len(arg.columns) = 2
    /\ arg.columns[2].name \in DOMAIN arg.desc_dict
    /\ HasNewline(arg.desc_dict[arg.columns[2].name])
    /\ Len(Split(ret[1], NL)) = 3

-----------------------------------------------------------------------------
(* C9 *)

\* C9, as claimed: the process-wide key is set once, and every remote call
\* made through an object uses the key that object was constructed with.
C9_KeyOfTheCallingObject ==
    /\ openai_api_key = KeyGiven(objs[1])
    /\ \A i \in 1..Len(used_keys) : used_keys[i] = KeyGiven(objs[self])

\* C9, amended: every construction sets the process-wide key, to the
\* object's parameter when that is a non-empty key and else to the
\* environment variable's value; no call changes it; every remote call uses
\* the key of the object constructed last.
C9_KeyOfTheLastObject ==
    /\ openai_api_key = KeyGiven(objs[Len(objs)])
    /\ \A i \in 1..Len(used_keys) : used_keys[i] = KeyGiven(objs[Len(objs)])

\* C9 witness: both remote calls of a call through the first object used the
\* key of the second.
C9_Witness ==
    /\ self = 1 /\ Len(objs) = 2 /\ Len(used_keys) = 2
    /\ KeyGiven(objs[1]) = <<<<"k", "1">>>>
    /\ used_keys = <<KeyGiven(objs[2]), KeyGiven(objs[2])>>
    /\ KeyGiven(objs[2]) # KeyGiven(objs[1])

-----------------------------------------------------------------------------
(* C10 *)

\* C10: every call that builds a schema block (format_tables_info,
\* make_prompt, build_query, execute) lists exactly the tables and columns
\* the store holds at that call, in catalog order, whatever the store held at
\* earlier calls; and no step changes an object's description map.
C10_SchemaIsLive ==
    [][/\ (pc = "idle" /\ pc' \in {"chat", "done"}) =>
             ListedSchema(IF op' \in {"execute", "build_query"} THEN prompt' ELSE ret'[1])
                 = Schema(conn')
       /\ \A i \in 1..Len(objs) :
             /\ i <= Len(objs')
             /\ objs'[i].column_descriptions = objs[i].column_descriptions]_vars

\* C10 witness: an execute whose prompt lists two tables, both created after
\* the construction.
C10_Witness ==
    /\ op = "execute" /\ pc = "chat" /\ Len(conn) = 2
    /\ ListedSchema(prompt) = Schema(conn)
    /\ Len(ListedSchema(prompt)[1].cols) = 2

====
